---- MODULE Spec2Model ----
(***************************************************************************)
(* Model of gh_summarizer.py (ozefe/ozefe): the README patcher             *)
(* (generate_readme), the summary gate and retry recursion (summarize),    *)
(* the two source fetchers and the orchestration loops of _main.           *)
(*                                                                         *)
(* Text is a sequence of tokens.  A token is one character ("a", "m", ...),*)
(* a run of characters with a known length ("B200"), a line terminator     *)
(* ("NL" = \n, "CRLF" = \r\n), a blank ("ws"), a marker word or a          *)
(* placeholder such as "{{SCP_TITLE}}".  Sequences are 1-based here, lists *)
(* are 0-based in the source.                                              *)
(***************************************************************************)
EXTENDS Integers, Sequences, FiniteSets, TLC

VARIABLES
    config,          \* which of the required configuration values are set
    scp_api,         \* how the SCP GraphQL endpoint answers in this run
    llm,             \* how the generation service answers in this run
    template,        \* the template file (README_TEMPLATE.md)
    readme,          \* the target README file on disk
    prior,           \* content of the target file when the run started
    output_readme,   \* TRUE iff --output-readme was given
    wikipedia_urls,  \* the Wikipedia URL list file
    max_retries,     \* --max-retries
    pc,              \* position of _main
    scp_data,        \* _main's scp_data
    wikipedia_data,  \* _main's wikipedia_data
    cand,            \* candidate drawn for the channel being processed
    retries,         \* max_retries of the innermost active call
    attempts,        \* service calls made by the active retryable call
    lastResult,      \* per channel: how the last summarize call ended
    seen,            \* per channel: kinds of generation output received
    genTotal,        \* per channel: generation calls made (saturating)
    result,          \* what generate_readme returned or raised
    uncaught,        \* the exception that left _main, and where it arose
    endpoint,        \* graphql_api_endpoint of the innermost get_random_scp
    cpt              \* the run of the price script cpt.py and its README.md

vars == <<config, scp_api, llm, template, readme, prior, output_readme,
          wikipedia_urls, max_retries, pc, scp_data, wikipedia_data, cand,
          retries, attempts, lastResult, seen, genTotal, result, uncaught,
          endpoint, cpt>>

\* what the run of _main is given and never assigns, the price script
\* included
inputs == <<config, scp_api, llm, template, prior, output_readme,
            wikipedia_urls, max_retries, cpt>>

\* everything but the price script
summarizer == <<config, scp_api, llm, template, readme, prior, output_readme,
                wikipedia_urls, max_retries, pc, scp_data, wikipedia_data,
                cand, retries, attempts, lastResult, seen, genTotal, result,
                uncaught, endpoint>>

(* ------------------------------ bounds -------------------------------- *)
MaxRetries == 2
MaxCount == MaxRetries + 2
\* stand-in for sys.getrecursionlimit(): the depth no call stack exceeds
RecursionLimit == MaxRetries + 3
MaxTemplateLines == 3
MaxReadmeLines == 2
MaxTemplateLen == 3

(* --------------------------- text primitives -------------------------- *)
SCP_PLACEHOLDERS ==
    {"{{SCP_URL}}", "{{SCP_TITLE}}", "{{SCP_TITLE_ALT}}", "{{SCP_SUMMARY}}"}

WIKIPEDIA_PLACEHOLDERS ==
    {"{{WIKIPEDIA_URL}}", "{{WIKIPEDIA_TITLE}}", "{{WIKIPEDIA_SUMMARY}}"}

\* line boundaries recognised by str.splitlines ("CR" = a lone \r)
IsLineEnd(t) == t \in {"NL", "CRLF", "CR"}

\* str.replace(old, new) for a one-token old
RECURSIVE Replace(_, _, _)
Replace(text, old, new) ==
    IF text = <<>> THEN <<>>
    ELSE (IF Head(text) = old THEN new ELSE <<Head(text)>>)
         \o Replace(Tail(text), old, new)

\* str.splitlines(keepends=True)
RECURSIVE SplitFrom(_, _, _)
SplitFrom(text, i, line) ==
    IF i > Len(text) THEN (IF line = <<>> THEN <<>> ELSE <<line>>)
    ELSE IF IsLineEnd(text[i])
         THEN <<Append(line, text[i])>> \o SplitFrom(text, i + 1, <<>>)
         ELSE SplitFrom(text, i + 1, Append(line, text[i]))

splitlines(text) == SplitFrom(text, 1, <<>>)

\* "".join(lines)
RECURSIVE join(_)
join(lines) ==
    IF lines = <<>> THEN <<>> ELSE Head(lines) \o join(Tail(lines))

\* Path.read_text: text mode with universal newlines, \r\n and a lone \r
\* become \n
read_text(file) ==
    Replace(Replace(file.text, "CRLF", <<"NL">>), "CR", <<"NL">>)

\* Path.write_text on a platform whose os.linesep is \n
write_text(text) == [exists |-> TRUE, text |-> text]

NoFile == [exists |-> FALSE, text |-> <<>>]

(* ------------------------------ records ------------------------------- *)
None == [present |-> FALSE, title |-> <<>>, title_alt |-> <<>>,
         url |-> <<>>, summary |-> <<>>]

SCPData(title, title_alt, url, summary) ==
    [present |-> TRUE, title |-> title, title_alt |-> title_alt,
     url |-> url, summary |-> summary]

WikipediaData(title, url, summary) ==
    [present |-> TRUE, title |-> title, title_alt |-> <<>>,
     url |-> url, summary |-> summary]

(* --------------------------- generate_readme -------------------------- *)
\* render with the placeholders of an absent record blanked
render_BlankAbsent(readme_template, scp, wiki) ==
    LET s1 == Replace(readme_template, "{{SCP_URL}}", scp.url)
        s2 == Replace(s1, "{{SCP_TITLE}}", scp.title)
        s3 == Replace(s2, "{{SCP_TITLE_ALT}}", scp.title_alt)
        s4 == Replace(s3, "{{SCP_SUMMARY}}", scp.summary)
        w1 == Replace(s4, "{{WIKIPEDIA_URL}}", wiki.url)
        w2 == Replace(w1, "{{WIKIPEDIA_TITLE}}", wiki.title)
    IN  Replace(w2, "{{WIKIPEDIA_SUMMARY}}", wiki.summary)

\* the placeholder substitutions, in source order
render(readme_template, scp, wiki) ==
    LET s1 == Replace(readme_template, "{{SCP_URL}}", scp.url)
        s2 == Replace(s1, "{{SCP_TITLE}}", scp.title)
        s3 == Replace(s2, "{{SCP_TITLE_ALT}}", scp.title_alt)
        s4 == Replace(s3, "{{SCP_SUMMARY}}", scp.summary)
        a  == IF scp.present THEN s4 ELSE readme_template
        w1 == Replace(a, "{{WIKIPEDIA_URL}}", wiki.url)
        w2 == Replace(w1, "{{WIKIPEDIA_TITLE}}", wiki.title)
        w3 == Replace(w2, "{{WIKIPEDIA_SUMMARY}}", wiki.summary)
    IN  IF wiki.present THEN w3 ELSE a

\* difflib.SequenceMatcher.find_longest_match without junk: the longest
\* common block, then the one starting earliest in a, then earliest in b
BlockAt(a, b, i, j, k) == \A d \in 0..(k - 1) : a[i + d] = b[j + d]

Blocks(a, b, alo, ahi, blo, bhi) ==
    {t \in (alo..ahi) \X (blo..bhi) \X (1..(ahi - alo + 1)) :
        /\ t[1] + t[3] - 1 <= ahi
        /\ t[2] + t[3] - 1 <= bhi
        /\ BlockAt(a, b, t[1], t[2], t[3])}

find_longest_match(a, b, alo, ahi, blo, bhi) ==
    LET bs == Blocks(a, b, alo, ahi, blo, bhi)
    IN  CHOOSE t \in bs : \A u \in bs :
            \/ t[3] > u[3]
            \/ t[3] = u[3] /\ t[1] < u[1]
            \/ t[3] = u[3] /\ t[1] = u[1] /\ t[2] <= u[2]

\* difflib.SequenceMatcher.get_matching_blocks: the indices of b that lie
\* in a matching block (ranges are inclusive)
RECURSIVE MatchedB(_, _, _, _, _, _)
MatchedB(a, b, alo, ahi, blo, bhi) ==
    IF alo > ahi \/ blo > bhi \/ Blocks(a, b, alo, ahi, blo, bhi) = {}
    THEN {}
    ELSE LET t == find_longest_match(a, b, alo, ahi, blo, bhi)
         IN  (t[2]..(t[2] + t[3] - 1))
             \cup MatchedB(a, b, alo, t[1] - 1, blo, t[2] - 1)
             \cup MatchedB(a, b, t[1] + t[3], ahi, t[2] + t[3], bhi)

\* difflib.ndiff: the indices of b whose line is emitted with "+ "
PlusLines(a, b) == (1..Len(b)) \ MatchedB(a, b, 1, Len(a), 1, Len(b))

\* list.index: position of the first element equal to x
index(lines, x) ==
    CHOOSE i \in 1..Len(lines) :
        lines[i] = x /\ \A j \in 1..(i - 1) : lines[j] # x

\* PatchFrom with the IndexError swallowed: an out-of-range line is skipped
RECURSIVE PatchFrom_Swallow(_, _, _, _)
PatchFrom_Swallow(readme_lines, readme_inter_lines, plus, j) ==
    IF j > Len(readme_inter_lines)
    THEN [failed |-> FALSE, lines |-> readme_lines]
    ELSE IF j \notin plus
    THEN PatchFrom_Swallow(readme_lines, readme_inter_lines, plus, j + 1)
    ELSE LET changed_line == readme_inter_lines[j]
             idx == index(readme_inter_lines, changed_line)
         IN  IF idx > Len(readme_lines)
             THEN PatchFrom_Swallow(readme_lines, readme_inter_lines, plus,
                                    j + 1)
             ELSE PatchFrom_Swallow(
                      [readme_lines EXCEPT ![idx] = changed_line],
                      readme_inter_lines, plus, j + 1)

\* the loop over the "+ " lines, in ndiff order; stops at the first
\* IndexError, leaving the lines overwritten so far in memory
RECURSIVE PatchFrom(_, _, _, _)
PatchFrom(readme_lines, readme_inter_lines, plus, j) ==
    IF j > Len(readme_inter_lines)
    THEN [failed |-> FALSE, lines |-> readme_lines]
    ELSE IF j \notin plus
    THEN PatchFrom(readme_lines, readme_inter_lines, plus, j + 1)
    ELSE LET changed_line == readme_inter_lines[j]
             idx == index(readme_inter_lines, changed_line)
         IN  IF idx > Len(readme_lines)
             THEN [failed |-> TRUE, lines |-> readme_lines]
             ELSE PatchFrom([readme_lines EXCEPT ![idx] = changed_line],
                            readme_inter_lines, plus, j + 1)

patch(readme_template, readme_inter, readme_text) ==
    LET readme_lines == splitlines(readme_text)
        readme_template_lines == splitlines(readme_template)
        readme_inter_lines == splitlines(readme_inter)
    IN  PatchFrom(readme_lines, readme_inter_lines,
                  PlusLines(readme_template_lines, readme_inter_lines), 1)

\* OnPatchError with the write moved before the raise
OnPatchError_WritePartial(file, lines) == write_text(join(lines))

\* what is on disk after a failed patch: the raise precedes write_text
OnPatchError(file, lines) == file

Returned(text, file) == [err |-> "none", text |-> text, file |-> file]

Raised(name, file) == [err |-> name, text |-> <<>>, file |-> file]

\* generate_readme(scp, wiki, readme_fp, readme_template_fp): the value
\* returned or the exception raised, and the target file afterwards
generate_readme(scp, wiki, has_fp, template_file, readme_file) ==
    IF ~template_file.exists THEN Raised("FileNotFoundError", readme_file)
    ELSE LET readme_template == read_text(template_file) IN
    IF ~scp.present /\ ~wiki.present
    THEN IF has_fp
         THEN IF readme_file.exists
              THEN Returned(read_text(readme_file), readme_file)
              ELSE Raised("FileNotFoundError", readme_file)
         ELSE Returned(readme_template, readme_file)
    ELSE LET readme_inter == render(readme_template, scp, wiki) IN
    IF ~has_fp THEN Returned(readme_inter, readme_file)
    ELSE IF ~readme_file.exists THEN Raised("FileNotFoundError", readme_file)
    ELSE LET p == patch(readme_template, readme_inter, read_text(readme_file))
         IN  IF p.failed
             THEN Raised("ValueError", OnPatchError(readme_file, p.lines))
             ELSE Returned(join(p.lines), write_text(join(p.lines)))

(* ------------------------------ summarize ----------------------------- *)
MIN_SUMMARY_LEN == 200

TokenLen(t) ==
    CASE t = "B200" -> 200
      [] t = "B199" -> 199
      [] t = "INAPPROPRIATE" -> 13
      [] t = "ERROR" -> 5
      [] t = "CRLF" -> 2
      [] OTHER -> 1

RECURSIVE len(_)
len(text) == IF text = <<>> THEN 0 ELSE TokenLen(Head(text)) + len(Tail(text))

IsSpace(t) == t \in {"ws", "NL", "CRLF", "CR"}

RECURSIVE lstrip(_)
lstrip(text) ==
    IF text # <<>> /\ IsSpace(Head(text)) THEN lstrip(Tail(text)) ELSE text

RECURSIVE rstrip(_)
rstrip(text) ==
    IF text # <<>> /\ IsSpace(text[Len(text)])
    THEN rstrip(SubSeq(text, 1, Len(text) - 1)) ELSE text

strip(text) == rstrip(lstrip(text))

Contains(text, t) == \E i \in 1..Len(text) : text[i] = t

\* newlines_to_spaces that leaves the text as it is
newlines_to_spaces_Skipped(text) == text

\* str.replace("\n", " "): of \r\n only the \n is replaced
newlines_to_spaces(text) ==
    Replace(Replace(text, "NL", <<"ws">>), "CRLF", <<"CR", "ws">>)

\* Finish with the length gate open at the threshold
Finish_AtThreshold(resp_text) ==
    LET stripped == strip(resp_text)
    IN  IF len(stripped) < MIN_SUMMARY_LEN
        THEN [kind |-> "LLMResponseTooShortError", text |-> stripped]
        ELSE [kind |-> "return", text |-> newlines_to_spaces(stripped)]

\* the tail of one summarize frame: strip, length gate, newline removal
Finish(resp_text) ==
    LET stripped == strip(resp_text)
    IN  IF len(stripped) <= MIN_SUMMARY_LEN
        THEN [kind |-> "LLMResponseTooShortError", text |-> stripped]
        ELSE [kind |-> "return", text |-> newlines_to_spaces(stripped)]

\* the text returned by the innermost frame passes through the tail of
\* each of the `depth` frames that are waiting on the recursive call
RECURSIVE Unwind(_, _)
Unwind(r, depth) ==
    IF depth = 0 \/ r.kind # "return" THEN r
    ELSE Unwind(Finish(r.text), depth - 1)

\* OnErrorMarker giving up one attempt early
OnErrorMarker_OffByOne(resp, budget) ==
    IF budget <= 1
    THEN [kind |-> "LLMResponseInvalidError", text |-> resp.text]
    ELSE [kind |-> "retry", text |-> resp.text]

\* the retry decision on an output that contains the error marker
OnErrorMarker(resp, budget) ==
    IF budget = 0
    THEN [kind |-> "LLMResponseInvalidError", text |-> resp.text]
    ELSE [kind |-> "retry", text |-> resp.text]

\* the recursive call of a retry: a frame `depth` frames deep calls itself
\* again, which the interpreter refuses at the recursion limit
Recurse(o, depth) ==
    IF o.kind = "retry" /\ depth + 1 >= RecursionLimit
    THEN [kind |-> "RecursionError", text |-> <<>>]
    ELSE o

\* summarize with the error marker looked for before the policy marker
summarize_ErrorFirst(resp, budget, depth) ==
    IF resp.none THEN [kind |-> "LLMResponseError", text |-> <<>>]
    ELSE IF Contains(resp.text, "ERROR")
    THEN Recurse(OnErrorMarker(resp, budget), depth)
    ELSE IF Contains(resp.text, "INAPPROPRIATE")
    THEN [kind |-> "LLMResponseInappropriateError", text |-> resp.text]
    ELSE Unwind(Finish(resp.text), depth)

\* one generate_content call inside summarize, `depth` frames deep, with
\* `budget` = max_retries of this frame
summarize(resp, budget, depth) ==
    IF resp.none THEN [kind |-> "LLMResponseError", text |-> <<>>]
    ELSE IF Contains(resp.text, "INAPPROPRIATE")
    THEN [kind |-> "LLMResponseInappropriateError", text |-> resp.text]
    ELSE IF Contains(resp.text, "ERROR")
    THEN Recurse(OnErrorMarker(resp, budget), depth)
    ELSE Unwind(Finish(resp.text), depth)

\* ValidationGate classes of the spec, for the way a summarize call ended
Classify(kind) ==
    CASE kind = "return" -> "Accepted"
      [] kind = "LLMResponseInappropriateError" -> "RejectedPolicy"
      [] kind = "LLMResponseTooShortError" -> "RejectedTooShort"
      [] kind = "retry" -> "Transient"
      [] OTHER -> "RejectedMalformed"

\* history of the outputs of the generation service in one channel:
\* "error"  every output so far held the error marker and no policy marker
\* "marked" every output so far held the error marker, one also the policy
\*          marker
\* "mixed"  some output was absent or held no error marker
Saw(before, resp) ==
    IF resp.none \/ ~Contains(resp.text, "ERROR") \/ before = "mixed"
    THEN "mixed"
    ELSE IF Contains(resp.text, "INAPPROPRIATE") \/ before = "marked"
    THEN "marked"
    ELSE "error"

Bump(n) == IF n < MaxCount THEN n + 1 ELSE n

(* --------------------------- external inputs -------------------------- *)
\* outputs of gemini_client.models.generate_content
Resp(text) == [none |-> FALSE, text |-> text]

Responses ==
    { [none |-> TRUE, text |-> <<>>],
      Resp(<<>>),
      Resp(<<"INAPPROPRIATE">>),
      Resp(<<"ERROR">>),
      Resp(<<"ERROR", "ws", "INAPPROPRIATE">>),
      Resp(<<"B200">>),
      Resp(<<"ws", "B200", "x", "NL">>),
      Resp(<<"B200", "NL", "x">>) }

\* outputs around the length gate, with and without surrounding blanks
GateResponses ==
    Responses \cup
    { Resp(<<"ws">>),
      Resp(<<"B199">>),
      Resp(<<"B199", "x">>),
      Resp(<<"B199", "x", "x">>),
      Resp(<<"B200", "x">>),
      Resp(<<"ws", "B200", "ws">>),
      Resp(<<"NL", "B199", "x", "NL", "ws">>),
      Resp(<<"B199", "NL", "x">>),
      Resp(<<"B199", "ws", "NL">>),
      Resp(<<"B199", "CRLF", "x">>),
      Resp(<<"B200", "x", "ERROR">>),
      Resp(<<"B200", "ERROR", "INAPPROPRIATE">>),
      Resp(<<"x", "NL", "B199", "NL", "x", "CRLF">>) }

\* the generation service of a run: any output on any request, or the
\* error marker on the first `errors` requests of each summarize call and
\* the output `then` on every later one
AnyLlm == [fixed |-> FALSE, errors |-> 0, then |-> Resp(<<>>)]

FixedLlm(errors, then) == [fixed |-> TRUE, errors |-> errors, then |-> then]

\* what generate_content can return to the frame `depth` frames deep
Outputs(service, depth) ==
    IF ~service.fixed THEN Responses
    ELSE IF depth < service.errors THEN {Resp(<<"ERROR">>)}
    ELSE {service.then}

\* the page of a GraphQL answer; has_page, has_url, has_title say which of
\* the keys data.randomPage.page, page.url, page.wikidotInfo.title exist
Page(url, title, alts) ==
    [has_page |-> TRUE, has_url |-> TRUE, has_title |-> TRUE,
     url |-> url, title |-> title, alternateTitles |-> alts]

NoPage == [has_page |-> FALSE, has_url |-> FALSE, has_title |-> FALSE,
           url |-> <<>>, title |-> <<>>, alternateTitles |-> <<>>]

Pages ==
    { Page(<<"u1">>, <<"t1">>, <<>>),
      Page(<<"u2">>, <<"t2">>, << <<"n1">>, <<"n2">> >>),
      [Page(<<"u1">>, <<>>, <<>>) EXCEPT !.has_title = FALSE],
      NoPage }

\* what urlopen and the body of the answer can be:
\* "URLError"        no answer, urlopen raises
\* "HTTPError"       an answer with status 4xx or 5xx, urlopen raises
\* "JSONDecodeError" an answer whose body is not JSON (a 204, an HTML page)
\* "non200"          a JSON answer with another status than 200 (a 202)
\* "ok"              a JSON answer with status 200
ScpResponses ==
    { [kind |-> "URLError", page |-> NoPage],
      [kind |-> "HTTPError", page |-> NoPage],
      [kind |-> "JSONDecodeError", page |-> NoPage],
      [kind |-> "non200", page |-> NoPage] }
    \cup { [kind |-> "ok", page |-> p] : p \in Pages }

\* the endpoint of a run: any answer on any request, or always `answer`
AnyApi == [fixed |-> FALSE, answer |-> [kind |-> "URLError", page |-> NoPage]]

FixedApi(answer) == [fixed |-> TRUE, answer |-> answer]

Answers(api) == IF api.fixed THEN {api.answer} ELSE ScpResponses

\* lines of the Wikipedia URL file
UrlFiles ==
    { NoFile,
      [exists |-> TRUE, text |-> <<>>],
      [exists |-> TRUE,
       text |-> <<"w", "/", "a", "_", "b", "NL", "w", "/", "c", "NL">>] }

(* ------------------------------ fetchers ------------------------------ *)
\* the default of the parameter graphql_api_endpoint, and another endpoint
GRAPHQL_API_ENDPOINT == "https://api.crom.avn.sh/graphql"

Endpoints == {GRAPHQL_API_ENDPOINT, "https://mirror.example/graphql"}

\* one urlopen inside get_random_scp, `depth` frames deep, with `budget` =
\* max_retries of the frame
get_random_scp(resp, budget, depth) ==
    IF resp.kind \in {"URLError", "HTTPError", "JSONDecodeError"}
    THEN resp.kind
    ELSE IF resp.kind = "non200"
    THEN IF budget = 0 THEN "SCPResponseInvalidError"
         ELSE IF depth + 1 >= RecursionLimit THEN "RecursionError"
         ELSE "retry"
    ELSE "return"

\* a line of splitlines() without keepends: the line end is dropped
chomp(line) ==
    IF line # <<>> /\ IsLineEnd(line[Len(line)])
    THEN SubSeq(line, 1, Len(line) - 1) ELSE line

\* the URLs secrets.choice can return, stripped
get_random_wikipedia_url(file) ==
    UNION { {strip(chomp(wikipedia_urls_lines[i])) :
                i \in 1..Len(wikipedia_urls_lines)} :
            wikipedia_urls_lines \in
                {splitlines(text) : text \in {read_text(file)}} }

\* wikipedia_url.split("/")[-1]
RECURSIVE LastSegment(_, _)
LastSegment(url, acc) ==
    IF url = <<>> THEN acc
    ELSE IF Head(url) = "/" THEN LastSegment(Tail(url), <<>>)
    ELSE LastSegment(Tail(url), Append(acc, Head(url)))

\* urllib.parse.unquote on the escapes the model knows
unquote(text) == Replace(Replace(text, "%20", <<"ws">>), "%5F", <<"_">>)

WikipediaTitle(url) == Replace(unquote(LastSegment(url, <<>>)), "_", <<"ws">>)

\* TitleAlt taking the last alternate title
TitleAlt_Last(page) ==
    IF page.alternateTitles # <<>>
    THEN page.alternateTitles[Len(page.alternateTitles)] ELSE <<>>

\* title_alt of the SCP record
TitleAlt(page) ==
    IF page.alternateTitles # <<>> THEN page.alternateTitles[1] ELSE <<>>

(* -------------------------------- _main ------------------------------- *)
Channels == {"scp", "wikipedia"}

NoException == [exc |-> "none", at |-> "none"]

NoResult == [err |-> "none", text |-> <<>>]

\* OnSummarize with a record built from a text that failed the length gate
OnSummarize_BuildOnTooShort(kind) ==
    CASE kind = "retry" -> "recurse"
      [] kind \in {"return", "LLMResponseTooShortError"} -> "build"
      [] kind = "LLMResponseInappropriateError" -> "continue"
      [] OTHER -> "break"

\* OnSummarize with a new candidate drawn for every retry
OnSummarize_ResampleOnRetry(kind) ==
    CASE kind = "return" -> "build"
      [] kind \in {"retry", "LLMResponseInappropriateError",
                   "LLMResponseTooShortError"} -> "continue"
      [] OTHER -> "break"

\* OnSummarize with every error of summarize caught by the first handler
OnSummarize_ContinueOnMalformed(kind) ==
    CASE kind = "retry" -> "recurse"
      [] kind = "return" -> "build"
      [] OTHER -> "continue"

\* OnSummarize with the content-quality errors caught by the second handler
OnSummarize_BreakOnReject(kind) ==
    CASE kind = "retry" -> "recurse"
      [] kind = "return" -> "build"
      [] OTHER -> "break"

\* which branch of the try statement around summarize is taken
OnSummarize(kind) ==
    CASE kind = "retry" -> "recurse"
      [] kind = "return" -> "build"
      [] kind \in {"LLMResponseInappropriateError",
                   "LLMResponseTooShortError"} -> "continue"
      [] OTHER -> "break"

\* an exception that no handler of _main catches
Propagate(exc, at) ==
    /\ pc' = "raised"
    /\ uncaught' = [exc |-> exc, at |-> at]

\* Enter with the budget left over by the previous call
Enter_KeepBudget(next) ==
    /\ pc' = next
    /\ UNCHANGED retries
    /\ attempts' = 0

\* entering a retryable call with the configured budget
Enter(next) ==
    /\ pc' = next
    /\ retries' = max_retries
    /\ attempts' = 0

\* AfterScp with the Wikipedia loop skipped
AfterScp_SkipWikipedia == "generate_readme"

\* where _main goes on when the SCP loop is left
AfterScp == "wikipedia_fetch"

\* the configuration values _main requires; TRUE = set, FALSE = None
Config(scp_user_prompt, wikipedia_user_prompt, gemini_api_key) ==
    [scp_user_prompt |-> scp_user_prompt,
     wikipedia_user_prompt |-> wikipedia_user_prompt,
     gemini_api_key |-> gemini_api_key]

\* MissingVariable without the check of the API key
MissingVariable_NoKeyCheck(c) ==
    IF ~c.scp_user_prompt THEN "GH_SUMMARIZER_SCP_USER_PROMPT"
    ELSE IF ~c.wikipedia_user_prompt THEN "GH_SUMMARIZER_WIKIPEDIA_USER_PROMPT"
    ELSE "none"

\* the variable named by the MissingEnvironmentVariableError, if one is raised
MissingVariable(c) ==
    IF ~c.scp_user_prompt THEN "GH_SUMMARIZER_SCP_USER_PROMPT"
    ELSE IF ~c.wikipedia_user_prompt THEN "GH_SUMMARIZER_WIKIPEDIA_USER_PROMPT"
    ELSE IF ~c.gemini_api_key THEN "GH_SUMMARIZER_GEMINI_API_KEY"
    ELSE "none"

\* the validation of the configuration that precedes the two loops
CheckConfig ==
    /\ pc = "check_config"
    /\ IF MissingVariable(config) # "none"
       THEN Propagate("MissingEnvironmentVariableError", "config")
       ELSE pc' = "scp_fetch" /\ UNCHANGED uncaught
    /\ UNCHANGED <<inputs, readme, scp_data, wikipedia_data, cand, retries,
                   attempts, lastResult, seen, genTotal, result, endpoint>>

\* one request of get_random_scp and, on success, the extraction of the page
ScpFetch ==
    /\ pc = "scp_fetch"
    /\ \E r \in Answers(scp_api) :
         LET o == get_random_scp(r, retries, attempts) IN
         CASE o = "retry" ->
                /\ retries' = retries - 1
                /\ attempts' = attempts + 1
                \* the recursive call passes max_retries only
                /\ endpoint' = GRAPHQL_API_ENDPOINT
                /\ UNCHANGED <<pc, cand, uncaught>>
           [] o = "return" ->
                IF r.page.has_page /\ r.page.has_url
                THEN /\ Enter("scp_summarize")
                     /\ cand' = r.page
                     /\ UNCHANGED <<uncaught, endpoint>>
                ELSE /\ Propagate("KeyError", "scp")
                     /\ UNCHANGED <<cand, retries, attempts, endpoint>>
           [] OTHER ->
                /\ Enter(AfterScp)
                /\ UNCHANGED <<cand, uncaught, endpoint>>
    /\ UNCHANGED <<inputs, readme, scp_data, wikipedia_data, lastResult, seen,
                   genTotal, result>>

\* the bookkeeping common to both summarize loops
Generated(ch, resp, o) ==
    /\ lastResult' = [lastResult EXCEPT ![ch] = Classify(o.kind)]
    /\ seen' = [seen EXCEPT ![ch] = Saw(seen[ch], resp)]
    /\ genTotal' = [genTotal EXCEPT ![ch] = Bump(genTotal[ch])]

\* one generate_content call of summarize for the SCP candidate
ScpSummarize ==
    /\ pc = "scp_summarize"
    /\ \E resp \in Outputs(llm, attempts) :
         LET o == summarize(resp, retries, attempts)
             b == OnSummarize(o.kind)
         IN  /\ Generated("scp", resp, o)
             /\ CASE b = "recurse" ->
                       /\ retries' = retries - 1
                       /\ attempts' = attempts + 1
                       /\ UNCHANGED <<pc, scp_data, uncaught>>
                  [] b = "continue" ->
                       /\ Enter("scp_fetch")
                       /\ UNCHANGED <<scp_data, uncaught>>
                  [] b = "build" ->
                       IF cand.has_title
                       THEN /\ Enter(AfterScp)
                            /\ scp_data' = SCPData(cand.title, TitleAlt(cand),
                                                   cand.url, o.text)
                            /\ UNCHANGED uncaught
                       ELSE /\ Propagate("KeyError", "scp")
                            /\ UNCHANGED <<scp_data, retries, attempts>>
                  [] OTHER ->
                       /\ Enter(AfterScp)
                       /\ UNCHANGED <<scp_data, uncaught>>
    \* _main calls get_random_scp without an endpoint
    /\ endpoint' = GRAPHQL_API_ENDPOINT
    /\ UNCHANGED <<inputs, readme, wikipedia_data, cand, result>>

\* get_random_wikipedia_url, called outside any try statement
WikipediaFetch ==
    /\ pc = "wikipedia_fetch"
    /\ \/ /\ ~wikipedia_urls.exists
          /\ Propagate("FileNotFoundError", "wikipedia")
          /\ UNCHANGED <<cand, retries, attempts>>
       \/ /\ wikipedia_urls.exists
          /\ get_random_wikipedia_url(wikipedia_urls) = {}
          /\ Propagate("IndexError", "wikipedia")
          /\ UNCHANGED <<cand, retries, attempts>>
       \/ /\ wikipedia_urls.exists
          /\ \E u \in get_random_wikipedia_url(wikipedia_urls) :
                /\ Enter("wikipedia_summarize")
                /\ cand' = Page(u, <<>>, <<>>)
                /\ UNCHANGED uncaught
    /\ UNCHANGED <<inputs, readme, scp_data, wikipedia_data, lastResult, seen,
                   genTotal, result, endpoint>>

\* one generate_content call of summarize for the Wikipedia candidate
WikipediaSummarize ==
    /\ pc = "wikipedia_summarize"
    /\ \E resp \in Outputs(llm, attempts) :
         LET o == summarize(resp, retries, attempts)
             b == OnSummarize(o.kind)
         IN  /\ Generated("wikipedia", resp, o)
             /\ CASE b = "recurse" ->
                       /\ retries' = retries - 1
                       /\ attempts' = attempts + 1
                       /\ UNCHANGED <<pc, wikipedia_data>>
                  [] b = "continue" ->
                       /\ Enter("wikipedia_fetch")
                       /\ UNCHANGED wikipedia_data
                  [] b = "build" ->
                       /\ Enter("generate_readme")
                       /\ wikipedia_data' =
                            WikipediaData(WikipediaTitle(cand.url), cand.url,
                                          o.text)
                  [] OTHER ->
                       /\ Enter("generate_readme")
                       /\ UNCHANGED wikipedia_data
    /\ UNCHANGED <<inputs, readme, scp_data, cand, result, uncaught,
                   endpoint>>

\* the call of generate_readme and the print that ends _main
GenerateReadme ==
    /\ pc = "generate_readme"
    /\ \E g \in {generate_readme(scp_data, wikipedia_data, output_readme,
                                  template, readme)} :
           /\ readme' = g.file
           /\ result' = [err |-> g.err, text |-> g.text]
           /\ IF g.err = "none"
              THEN pc' = "done" /\ UNCHANGED uncaught
              ELSE Propagate(g.err, "generate_readme")
    /\ UNCHANGED <<inputs, scp_data, wikipedia_data, cand, retries, attempts,
                   lastResult, seen, genTotal, endpoint>>

(* ------------------------------- cpt.py ------------------------------- *)
\* README.md of the price script is a sequence of tokens: "TD_A" and "TD_B"
\* are the opening tags <td id="#A"> and <td id="#B">, "<" is the first
\* character of any other tag, "1", "2", "7" and "x" are characters of cell
\* contents and other text, "NL" is \n.  "~TD_A" is a tag whose characters
\* have been separated by inserted text.
Symbols == {"A", "B"}

CellTag(symbol) == IF symbol = "A" THEN "TD_A" ELSE "TD_B"

\* the tokens that begin with the character "<"
StartsTag(t) == t \in {"<", "TD_A", "TD_B", "~TD_A", "~TD_B"}

\* re.search(f'<td id="#{symbol}">(.*?)<', source): the first opening tag of
\* the symbol that is followed on its line by a "<", and the nearest such
\* "<"; the group is what lies between them
Closes(source, i, j) ==
    /\ StartsTag(source[j])
    /\ \A k \in (i + 1)..(j - 1) : ~StartsTag(source[k]) /\ source[k] # "NL"

search(source, symbol) ==
    LET starts == {i \in 1..Len(source) :
                      /\ source[i] = CellTag(symbol)
                      /\ \E j \in (i + 1)..Len(source) : Closes(source, i, j)}
    IN  IF starts = {} THEN [found |-> FALSE, from |-> 0, to |-> 0]
        ELSE LET i == CHOOSE a \in starts : \A b \in starts : a <= b
                 j == CHOOSE c \in (i + 1)..Len(source) : Closes(source, i, c)
             IN  [found |-> TRUE, from |-> i, to |-> j]

\* .groups()[0] of a match
group(source, match) == SubSeq(source, match.from + 1, match.to - 1)

\* a token whose characters are separated by inserted text
Torn(t) ==
    IF t = "TD_A" THEN "~TD_A" ELSE IF t = "TD_B" THEN "~TD_B" ELSE t

IsPrefix(old, text) ==
    Len(old) <= Len(text) /\ SubSeq(text, 1, Len(old)) = old

\* str.replace(old, new): every occurrence of old, from left to right and
\* without overlap; an empty old matches before every character and at the
\* end
RECURSIVE str_replace(_, _, _)
str_replace(text, old, new) ==
    IF old = <<>>
    THEN IF text = <<>> THEN new
         ELSE new \o <<Torn(Head(text))>> \o str_replace(Tail(text), old, new)
    ELSE IF text = <<>> THEN <<>>
    ELSE IF IsPrefix(old, text)
    THEN new \o str_replace(SubSeq(text, Len(old) + 1, Len(text)), old, new)
    ELSE <<Head(text)>> \o str_replace(Tail(text), old, new)

\* f'{price:,.2f}' for the prices the service quotes
Prices == { <<"1">>, <<"2">>, <<"7", "1">> }

\* what one price lookup can give: urlopen raises, the body is not the
\* expected JSON, or a price is quoted
Lookups ==
    { [kind |-> "raises", price |-> <<>>],
      [kind |-> "bad_body", price |-> <<>>] }
    \cup { [kind |-> "ok", price |-> p] : p \in Prices }

\* the script is not running
CptIdle ==
    [pc |-> "idle", env |-> FALSE, CURRENCIES |-> <<>>, file |-> <<>>,
     start |-> <<>>, source |-> <<>>, i |-> 0, exc |-> "none",
     lookup_failed |-> FALSE]

\* the script about to start: env says whether CMC_API_KEY and CURRENCIES
\* are set, file is the content of README.md
CptStart(env, currencies, file) ==
    [pc |-> "read", env |-> env, CURRENCIES |-> currencies, file |-> file,
     start |-> file, source |-> <<>>, i |-> 0, exc |-> "none",
     lookup_failed |-> FALSE]

CptRaise(exc) == [cpt EXCEPT !.pc = "failed", !.exc = exc]

\* OnLookupError with the loop left and README.md written all the same
OnLookupError_Write == [cpt EXCEPT !.pc = "loop", !.i = Len(cpt.CURRENCIES) + 1,
                                   !.lookup_failed = TRUE]

\* the handler of the try statement around urlopen: print(e) and
\* os.exit(1); os has no attribute exit, the AttributeError ends the run
OnLookupError ==
    [cpt EXCEPT !.pc = "failed", !.exc = "AttributeError",
                !.lookup_failed = TRUE]

\* the two environment lookups and the read of README.md
CptRead ==
    /\ cpt.pc = "read"
    /\ cpt' = IF ~cpt.env THEN CptRaise("KeyError")
              ELSE [cpt EXCEPT !.pc = "loop", !.source = cpt.file, !.i = 1]
    /\ UNCHANGED summarizer

\* one pass of the loop over CURRENCIES
CptUpdate ==
    /\ cpt.pc = "loop"
    /\ cpt.i <= Len(cpt.CURRENCIES)
    /\ \E req \in Lookups :
         LET match == search(cpt.source, cpt.CURRENCIES[cpt.i])
         IN  cpt' =
               IF req.kind = "raises" THEN OnLookupError
               ELSE IF ~match.found THEN CptRaise("AttributeError")
               ELSE IF req.kind = "bad_body"
               THEN [CptRaise("KeyError") EXCEPT !.lookup_failed = TRUE]
               ELSE [cpt EXCEPT
                       !.source = str_replace(cpt.source,
                                              group(cpt.source, match),
                                              req.price),
                       !.i = cpt.i + 1]
    /\ UNCHANGED summarizer

\* the write of README.md after the loop
CptWrite ==
    /\ cpt.pc = "loop"
    /\ cpt.i > Len(cpt.CURRENCIES)
    /\ cpt' = [cpt EXCEPT !.pc = "done", !.file = cpt.source]
    /\ UNCHANGED summarizer

(* ---------------------------- initial states -------------------------- *)
SeqsUpTo(S, n) == UNION {[1..k -> S] : k \in 0..n}

File(lines) == [exists |-> TRUE, text |-> join(lines)]

\* nothing fetched or generated yet
FreshRun ==
    /\ prior = readme
    /\ cand = NoPage
    /\ retries = max_retries
    /\ attempts = 0
    /\ lastResult = [c \in Channels |-> "none"]
    /\ seen = [c \in Channels |-> "none"]
    /\ genTotal = [c \in Channels |-> 0]
    /\ result = NoResult
    /\ uncaught = NoException

\* the run starts at the first loop of _main
Fresh ==
    /\ FreshRun
    /\ endpoint = GRAPHQL_API_ENDPOINT
    /\ cpt = CptIdle

\* template and target document of the runs of _main
Scenarios ==
    { \* first run: the target equals the template
      <<File(<< <<"{{SCP_TITLE}}", "NL">>, <<"{{WIKIPEDIA_TITLE}}", "NL">> >>),
        File(<< <<"{{SCP_TITLE}}", "NL">>, <<"{{WIKIPEDIA_TITLE}}", "NL">> >>)>>,
      \* a later run over a document with a manual edit
      <<File(<< <<"a", "NL">>, <<"{{SCP_SUMMARY}}", "NL">>,
               <<"{{WIKIPEDIA_URL}}", "NL">> >>),
        File(<< <<"m", "NL">>, <<"o", "NL">>, <<"p", "NL">> >>)>>,
      \* both channels on one line
      <<File(<< <<"{{SCP_TITLE}}", "{{WIKIPEDIA_TITLE}}", "NL">> >>),
        File(<< <<"o", "p", "NL">> >>)>>,
      \* the same placeholder line twice
      <<File(<< <<"{{WIKIPEDIA_URL}}", "NL">>, <<"{{SCP_URL}}", "NL">>,
               <<"{{WIKIPEDIA_URL}}", "NL">> >>),
        File(<< <<"p", "NL">>, <<"o", "NL">>, <<"p", "NL">> >>)>>,
      \* a line was deleted by hand
      <<File(<< <<"{{SCP_TITLE}}", "NL">>, <<"{{WIKIPEDIA_TITLE}}", "NL">> >>),
        File(<< <<"o", "NL">> >>)>>,
      \* the template file does not exist
      <<NoFile, File(<< <<"o", "NL">> >>)>> }

Configs == {Config(a, b, c) : a \in BOOLEAN, b \in BOOLEAN, c \in BOOLEAN}

Init ==
    /\ config \in Configs
    /\ scp_api = AnyApi
    /\ llm = AnyLlm
    /\ \E sc \in Scenarios : template = sc[1] /\ readme = sc[2]
    /\ output_readme = TRUE
    /\ wikipedia_urls \in UrlFiles
    /\ max_retries \in 0..MaxRetries
    /\ pc = "check_config"
    /\ scp_data = None
    /\ wikipedia_data = None
    /\ Fresh

Next ==
    \/ CheckConfig
    \/ ScpFetch
    \/ ScpSummarize
    \/ WikipediaFetch
    \/ WikipediaSummarize
    \/ GenerateReadme

Spec == Init /\ [][Next]_vars

\* the loops of _main are ordinary sequential code: a fetch or a
\* generation call that can be made is made
FairSpec ==
    /\ Spec
    /\ WF_vars(CheckConfig)
    /\ WF_vars(ScpFetch)
    /\ WF_vars(ScpSummarize)
    /\ WF_vars(WikipediaFetch)
    /\ WF_vars(WikipediaSummarize)

(* ------- runs against services that answer every request alike ------- *)
FixedInit ==
    /\ config = Config(TRUE, TRUE, TRUE)
    /\ scp_api \in {FixedApi(a) : a \in ScpResponses}
    /\ llm \in {FixedLlm(k, r) : k \in 0..MaxRetries, r \in GateResponses}
    /\ template = File(<< <<"{{SCP_SUMMARY}}", "NL">>,
                          <<"{{WIKIPEDIA_SUMMARY}}", "NL">>,
                          <<"x", "{{SCP_TITLE_ALT}}", "x", "NL">> >>)
    /\ readme = template
    /\ output_readme = TRUE
    /\ wikipedia_urls \in UrlFiles \ {NoFile, [exists |-> TRUE, text |-> <<>>]}
    /\ max_retries \in 0..MaxRetries
    /\ pc = "check_config"
    /\ scp_data = None
    /\ wikipedia_data = None
    /\ Fresh

FixedSpec == FixedInit /\ [][Next]_vars

(* ------------- the same runs with any integer retry budget ------------ *)
\* argparse's type=int accepts negative numbers
MinRetries == -2

BudgetInit ==
    /\ config = Config(TRUE, TRUE, TRUE)
    /\ scp_api \in {FixedApi(a) : a \in ScpResponses}
    /\ llm \in {FixedLlm(k, r) : k \in 0..RecursionLimit, r \in Responses}
    /\ template = File(<< <<"{{SCP_SUMMARY}}", "NL">>,
                          <<"{{WIKIPEDIA_SUMMARY}}", "NL">> >>)
    /\ readme = template
    /\ output_readme = TRUE
    /\ wikipedia_urls \in UrlFiles \ {NoFile, [exists |-> TRUE, text |-> <<>>]}
    /\ max_retries \in MinRetries..MaxRetries
    /\ pc = "check_config"
    /\ scp_data = None
    /\ wikipedia_data = None
    /\ Fresh

BudgetSpec == BudgetInit /\ [][Next]_vars

(* ------------- get_random_scp called with any endpoint ---------------- *)
FetchInit ==
    /\ config = Config(TRUE, TRUE, TRUE)
    /\ scp_api \in {AnyApi} \cup {FixedApi(a) : a \in ScpResponses}
    /\ llm = AnyLlm
    /\ template = NoFile
    /\ readme = NoFile
    /\ output_readme = FALSE
    /\ wikipedia_urls = NoFile
    /\ max_retries \in 0..MaxRetries
    /\ pc = "scp_fetch"
    /\ scp_data = None
    /\ wikipedia_data = None
    /\ FreshRun
    /\ endpoint \in Endpoints
    /\ cpt = CptIdle

FetchNext == ScpFetch

FetchSpec == FetchInit /\ [][FetchNext]_vars

(* ------------- generate_readme called on arbitrary arguments ---------- *)
TemplateLines ==
    { <<"a", "NL">>,
      <<"{{SCP_TITLE}}", "NL">>,
      <<"{{WIKIPEDIA_TITLE}}", "NL">>,
      <<"{{SCP_TITLE}}", "{{WIKIPEDIA_TITLE}}", "NL">> }

ReadmeLines == { <<"a", "NL">>, <<"m", "NL">>, <<"m", "CRLF">> }

ScpRecords ==
    { None,
      SCPData(<<"a">>, <<>>, <<"u">>, <<"s">>) }

WikipediaRecords ==
    { None,
      WikipediaData(<<"a">>, <<"u">>, <<"s">>),
      WikipediaData(<<"w">>, <<"u">>, <<"s">>) }

PatchInit ==
    /\ config = Config(TRUE, TRUE, TRUE)
    /\ scp_api = AnyApi
    /\ llm = AnyLlm
    /\ template \in {File(ls) : ls \in SeqsUpTo(TemplateLines, MaxTemplateLines)}
    /\ readme \in {File(ls) : ls \in SeqsUpTo(ReadmeLines, MaxReadmeLines)}
    /\ output_readme \in BOOLEAN
    \* without --output-readme the target document is never opened
    /\ ~output_readme => readme = NoFile
    /\ wikipedia_urls = NoFile
    /\ max_retries = 0
    /\ pc = "generate_readme"
    /\ scp_data \in ScpRecords
    /\ wikipedia_data \in WikipediaRecords
    /\ Fresh

PatchNext == GenerateReadme

PatchSpec == PatchInit /\ [][PatchNext]_vars

\* the same calls on target documents whose lines all end in \n
PatchLfInit == PatchInit /\ ~Contains(readme.text, "CRLF")

PatchLfSpec == PatchLfInit /\ [][PatchNext]_vars

(* ------------- generate_readme with a value of two lines -------------- *)
BreakInit ==
    /\ config = Config(TRUE, TRUE, TRUE)
    /\ scp_api = AnyApi
    /\ llm = AnyLlm
    /\ template \in {File(ls) : ls \in SeqsUpTo(TemplateLines, MaxTemplateLines)}
    /\ readme \in {File(ls) : ls \in SeqsUpTo(ReadmeLines, MaxReadmeLines)}
    /\ ~Contains(readme.text, "CRLF")
    /\ output_readme = TRUE
    /\ wikipedia_urls = NoFile
    /\ max_retries = 0
    /\ pc = "generate_readme"
    /\ scp_data \in ScpRecords
    /\ wikipedia_data = WikipediaData(<<"w", "NL", "z">>, <<"u">>, <<"s">>)
    /\ Fresh

BreakSpec == BreakInit /\ [][PatchNext]_vars

(* ---------- generate_readme without an output path: rendering --------- *)
RenderTokens ==
    {"a", "{{SCP_TITLE}}", "{{SCP_SUMMARY}}", "{{WIKIPEDIA_TITLE}}",
     "{{WIKIPEDIA_SUMMARY}}"}

\* records with plain values and records whose values hold placeholders
RenderScpRecords ==
    { None,
      SCPData(<<"t">>, <<>>, <<"u">>, <<"s">>),
      SCPData(<<"{{SCP_SUMMARY}}">>, <<>>, <<"u">>,
              <<"{{SCP_TITLE}}", "{{WIKIPEDIA_TITLE}}">>) }

RenderWikipediaRecords ==
    { None,
      WikipediaData(<<"w">>, <<"v">>, <<"z">>),
      WikipediaData(<<"{{WIKIPEDIA_SUMMARY}}">>, <<"v">>,
                    <<"{{WIKIPEDIA_TITLE}}", "{{SCP_TITLE}}">>) }

RenderInit ==
    /\ config = Config(TRUE, TRUE, TRUE)
    /\ scp_api = AnyApi
    /\ llm = AnyLlm
    /\ template \in {[exists |-> TRUE, text |-> t] :
                        t \in SeqsUpTo(RenderTokens, MaxTemplateLen)}
    /\ readme = NoFile
    /\ output_readme = FALSE
    /\ wikipedia_urls = NoFile
    /\ max_retries = 0
    /\ pc = "generate_readme"
    /\ scp_data \in RenderScpRecords
    /\ wikipedia_data \in RenderWikipediaRecords
    /\ Fresh

RenderSpec == RenderInit /\ [][PatchNext]_vars

(* ------ generate_readme on a template whose last line has no \n ------- *)
MaxTailLines == MaxReadmeLines + 1

TailTemplateLines == { <<"a", "NL">>, <<"{{WIKIPEDIA_TITLE}}", "NL">> }

\* the last line of a file that does not end in a line terminator
TailLines == { <<"a">>, <<"{{WIKIPEDIA_TITLE}}">> }

TailReadmeLines == { <<"a", "NL">>, <<"m", "NL">>, <<"m">> }

TailInit ==
    /\ config = Config(TRUE, TRUE, TRUE)
    /\ scp_api = AnyApi
    /\ llm = AnyLlm
    /\ template \in {File(ls \o <<l>>) :
                        ls \in SeqsUpTo(TailTemplateLines, MaxTemplateLines - 1),
                        l \in TailLines}
    /\ readme \in {File(ls) : ls \in SeqsUpTo(TailReadmeLines, MaxTailLines)}
    /\ output_readme = TRUE
    /\ wikipedia_urls = NoFile
    /\ max_retries = 0
    /\ pc = "generate_readme"
    /\ scp_data = None
    /\ wikipedia_data \in {None, WikipediaData(<<"w">>, <<"u">>, <<"s">>)}
    /\ Fresh

TailSpec == TailInit /\ [][PatchNext]_vars

(* ------------------------- the price script --------------------------- *)
CptReadmes ==
    { \* two cells with different prices
      <<"TD_A", "1", "<", "x", "NL", "TD_B", "2", "<", "NL">>,
      \* the same price text in both cells and in the text between them
      <<"TD_A", "1", "<", "1", "x", "NL", "TD_B", "1", "<", "NL">>,
      \* the price of B begins with the price of A
      <<"TD_A", "1", "<", "NL", "TD_B", "1", "2", "<", "NL">>,
      \* a cell that is still empty
      <<"TD_A", "<", "x", "NL", "TD_B", "2", "<", "NL">>,
      \* a cell that runs over a line end
      <<"TD_A", "1", "NL", "<", "TD_B", "2", "<", "NL">>,
      \* no cell for A
      <<"x", "NL", "TD_B", "2", "<", "NL">> }

CurrencyLists == { <<"A">>, <<"A", "B">>, <<"B", "A">> }

CptInit ==
    /\ config = Config(TRUE, TRUE, TRUE)
    /\ scp_api = AnyApi
    /\ llm = AnyLlm
    /\ template = NoFile
    /\ readme = NoFile
    /\ output_readme = FALSE
    /\ wikipedia_urls = NoFile
    /\ max_retries = 0
    /\ pc = "done"
    /\ scp_data = None
    /\ wikipedia_data = None
    /\ FreshRun
    /\ endpoint = GRAPHQL_API_ENDPOINT
    /\ cpt \in {CptStart(env, currencies, file) :
                   env \in BOOLEAN, currencies \in CurrencyLists,
                   file \in CptReadmes}

CptNext ==
    \/ CptRead
    \/ CptUpdate
    \/ CptWrite

CptSpec == CptInit /\ [][CptNext]_vars

(* ============================ properties ============================== *)
\* the three texts of the patcher, as line sequences, in a state after the
\* call: T the template, R the rendering, D the target before the call
\* (DRaw with the line ends it had on disk), Out the target after the call
T == splitlines(read_text(template))

R == splitlines(render(read_text(template), scp_data, wikipedia_data))

D == splitlines(read_text(prior))

DRaw == splitlines(prior.text)

Out == splitlines(readme.text)

Returned_lines == splitlines(result.text)

HasData == scp_data.present \/ wikipedia_data.present

\* generate_readme was called with an output path and reached the patcher
Patching ==
    /\ pc \in {"done", "raised"}
    /\ uncaught.at \in {"none", "generate_readme"}
    /\ output_readme
    /\ HasData
    /\ template.exists
    /\ prior.exists

Patched == Patching /\ pc = "done"

SameShape == Len(T) = Len(R) /\ Len(T) = Len(DRaw)

\* the index at which the patcher writes the line R[j]
Target(j) == index(R, R[j])

(* C1: Manual-edit preservation (frame).  For T, R, D of the same line     *)
(* count, every line of D whose index is not an index where R differs from *)
(* T is byte-for-byte the same in the text generate_readme returns and     *)
(* writes.                                                                 *)
C1_FramePreserved ==
    (Patched /\ SameShape) =>
        \A i \in 1..Len(DRaw) :
            R[i] = T[i] => (Out[i] = DRaw[i] /\ Returned_lines[i] = DRaw[i])

(* C2: Changed lines land at their own index.  For T, R, D of the same     *)
(* line count and every index i with R[i] # T[i], line i of the patched    *)
(* document is R[i].                                                       *)
C2_ChangedAtOwnIndex ==
    (Patched /\ SameShape) =>
        \A i \in 1..Len(R) : R[i] # T[i] => Out[i] = R[i]

C4_NoPartialWrite ==
    result.err = "ValueError" => readme = prior

\* the failing call had overwritten a line in memory before it failed
C4_Witness ==
    /\ Patching
    /\ result.err = "ValueError"
    /\ patch(read_text(template), join(R), read_text(prior)).lines # D

(* C5: No-op patch, patch(T, T, D) = D.  When the rendering is line for    *)
(* line the template, generate_readme with an output path returns the      *)
(* current document text (as read) unchanged and leaves the content of the *)
(* file as it was.                                                         *)
C5_NoOpPatch ==
    (pc = "done" /\ output_readme /\ R = T) =>
        (result.text = read_text(prior) /\ readme = prior)

(* C6: Partial success end to end.  SCP abandoned, Wikipedia accepted on   *)
(* its first attempt: the written document has the Wikipedia fields        *)
(* updated and every SCP field as in the prior document.                   *)
HasAny(line, tokens) == \E i \in 1..Len(line) : line[i] \in tokens

PlaceholdersIn(line, tokens) == {line[i] : i \in 1..Len(line)} \cap tokens

PartialSuccess ==
    /\ pc = "done"
    /\ output_readme
    /\ ~scp_data.present
    /\ wikipedia_data.present
    /\ genTotal["wikipedia"] = 1
    /\ Len(D) = Len(T)

C6_PartialSuccess ==
    PartialSuccess =>
        \A i \in 1..Len(T) :
            LET a == HasAny(T[i], SCP_PLACEHOLDERS)
                b == HasAny(T[i], WIKIPEDIA_PLACEHOLDERS)
            IN  /\ (b /\ ~a) => Out[i] = R[i]
                /\ (a /\ ~b) => Out[i] = D[i]
                /\ (a /\ b) => PlaceholdersIn(Out[i], SCP_PLACEHOLDERS)
                                  \subseteq PlaceholdersIn(D[i], SCP_PLACEHOLDERS)

(* C7: Per-channel failures are absorbed.  No failure inside a channel     *)
(* keeps the other channel from running or the render-and-patch step from  *)
(* being executed: no exception that arises in a channel leaves _main.     *)
C7_FailuresAbsorbed == uncaught.at \notin Channels

(* C8: Retry exhaustion.                                                   *)
Src(ch) == IF ch = "scp" THEN "scp_fetch" ELSE "wikipedia_fetch"

Gen(ch) == IF ch = "scp" THEN "scp_summarize" ELSE "wikipedia_summarize"

Data(ch) == IF ch = "scp" THEN scp_data ELSE wikipedia_data

\* the loop of the channel has been left by break or by building a record
Finished(ch) ==
    /\ uncaught.at # ch
    /\ IF ch = "scp"
       THEN pc \notin {"scp_fetch", "scp_summarize"}
       ELSE pc \in {"generate_readme", "done", "raised"}

Exhausted(ch) ==
    /\ genTotal[ch] <= max_retries + 1
    /\ pc # Gen(ch) =>
           /\ Finished(ch)
           /\ genTotal[ch] = max_retries + 1
           /\ lastResult[ch] = "RejectedMalformed"
           /\ ~Data(ch).present

(* C8 as stated: when every output of the service holds the error marker,  *)
(* the channel makes exactly N+1 generation attempts, is then abandoned    *)
(* and its record handed to the renderer is None.                          *)
C8_RetryExhaustion ==
    \A ch \in Channels : seen[ch] \in {"error", "marked"} => Exhausted(ch)

(* C8 as amended: when every output of the service holds the error marker  *)
(* and none holds the policy marker, the channel makes exactly N+1         *)
(* generation attempts, is then abandoned and its record is None from then *)
(* on, in particular when the renderer is called.                          *)
C8_RetryExhaustionNoPolicy ==
    \A ch \in Channels : seen[ch] = "error" => Exhausted(ch)

C8_Witness ==
    /\ pc = "generate_readme"
    /\ max_retries = MaxRetries
    /\ seen["scp"] = "error"
    /\ genTotal["scp"] = MaxRetries + 1
    /\ seen["wikipedia"] = "error"
    /\ ~scp_data.present /\ ~wikipedia_data.present

(* C9: Bounded work and termination.  Whatever the sources and the         *)
(* generation service answer, both channels eventually reach Accepted or   *)
(* Abandoned (or the run ends on an unrecoverable error).                  *)
C9_ChannelsTerminate == <>(pc \in {"generate_readme", "done", "raised"})

(* C10: Content-quality rejection resamples.  A generation result rejected *)
(* as policy-violating or too short sends the channel back to Sourcing; in *)
(* Sourcing no generation call is made, and Generating is entered again    *)
(* only by a draw from the channel's source.                               *)
C10_RejectionResamples ==
    [][ /\ \A ch \in Channels :
              /\ (pc = Gen(ch) /\ lastResult'[ch] \in
                      {"RejectedPolicy", "RejectedTooShort"})
                  => pc' = Src(ch)
              /\ pc = Src(ch) => genTotal' = genTotal
        /\ (pc = "scp_fetch" /\ pc' = "scp_summarize") => ScpFetch
        /\ (pc = "wikipedia_fetch" /\ pc' = "wikipedia_summarize")
               => WikipediaFetch ]_vars

\* a candidate drawn after a rejection is being summarized
C10_Witness ==
    /\ pc = "wikipedia_summarize"
    /\ attempts = 0
    /\ lastResult["wikipedia"] = "RejectedTooShort"
    /\ lastResult["scp"] = "RejectedPolicy"

(* ---------------- runs against a fixed generation service ------------- *)
\* the summarize call of the channel has ended (it is not waiting on a retry)
Ended(ch) == lastResult[ch] \notin {"none", "Transient"}

\* the output the service settles on carries neither marker and is reached
\* within the retry budget
PlainOutput ==
    /\ llm.fixed
    /\ ~llm.then.none
    /\ ~Contains(llm.then.text, "INAPPROPRIATE")
    /\ ~Contains(llm.then.text, "ERROR")
    /\ llm.errors <= max_retries

\* the service gives no text, or keeps the error marker beyond the budget
MalformedOutput ==
    /\ llm.fixed
    /\ \/ llm.errors > max_retries
       \/ llm.then.none
       \/ /\ Contains(llm.then.text, "ERROR")
          /\ ~Contains(llm.then.text, "INAPPROPRIATE")

(* C11: Malformed output abandons the channel.  When the service returns   *)
(* no text, or the error marker persists after the budget is exhausted,    *)
(* the channel is abandoned at once: its loop is left without a record, no *)
(* new candidate is drawn and no further generation call is made for it.   *)
C11_MalformedAbandons ==
    /\ [](MalformedOutput =>
            \A ch \in Channels :
                /\ lastResult[ch] \in {"none", "Transient", "RejectedMalformed"}
                /\ genTotal[ch] <= max_retries + 1
                /\ ~Data(ch).present
                /\ lastResult[ch] = "RejectedMalformed" => Finished(ch))
    /\ [][\A ch \in Channels :
            lastResult[ch] = "RejectedMalformed" =>
                /\ genTotal'[ch] = genTotal[ch]
                /\ pc' \notin {Src(ch), Gen(ch)}]_vars

\* both channels were abandoned on an absent output after one retry
C11_Witness ==
    /\ pc = "generate_readme"
    /\ llm.fixed /\ llm.then.none /\ llm.errors = 1
    /\ lastResult["scp"] = "RejectedMalformed"
    /\ lastResult["wikipedia"] = "RejectedMalformed"
    /\ genTotal["scp"] = 2

(* C12: Validation boundary.  An output without marker tokens is accepted  *)
(* iff its length after trimming exceeds 200: exactly 200 characters are   *)
(* rejected as too short, 201 are accepted.                                *)
C12_ValidationBoundary ==
    PlainOutput =>
        \A ch \in Channels :
            Ended(ch) =>
                /\ lastResult[ch] \in {"Accepted", "RejectedTooShort"}
                /\ lastResult[ch] = "Accepted" <=>
                       len(strip(llm.then.text)) > 200
                /\ strip(llm.then.text) = <<"B200">> =>
                       lastResult[ch] = "RejectedTooShort"
                /\ strip(llm.then.text) \in {<<"B200", "x">>, <<"B199", "x", "x">>}
                       => lastResult[ch] = "Accepted"

\* an output of 202 characters, 200 after trimming, was rejected
C12_Witness ==
    /\ llm = FixedLlm(0, Resp(<<"ws", "B200", "ws">>))
    /\ lastResult["scp"] = "RejectedTooShort"
    /\ pc = "scp_fetch"

(* C13: Empty output is malformed.  A generation output that is the empty  *)
(* string is classified RejectedMalformed, like an absent output, and not  *)
(* RejectedTooShort.                                                       *)
C13_EmptyIsMalformed ==
    (PlainOutput /\ llm.then.text = <<>>) =>
        \A ch \in Channels :
            Ended(ch) => lastResult[ch] = "RejectedMalformed"

(* C14: Accepted normal form.  Every text returned on the Accepted path of *)
(* summarize is the raw output with leading and trailing whitespace        *)
(* trimmed and every internal \n turned into a space; it neither starts    *)
(* nor ends with whitespace and contains no \n.                            *)
C14_AcceptedNormalForm ==
    llm.fixed =>
        \A ch \in Channels :
            Data(ch).present =>
                LET summary == Data(ch).summary
                    trimmed == strip(llm.then.text)
                IN  /\ PlainOutput
                    /\ len(summary) = len(trimmed)
                    /\ ~Contains(trimmed, "CRLF") =>
                         /\ Len(summary) = Len(trimmed)
                         /\ \A i \in 1..Len(trimmed) :
                              summary[i] = IF trimmed[i] = "NL" THEN "ws"
                                           ELSE trimmed[i]
                    /\ ~IsSpace(summary[1])
                    /\ ~IsSpace(summary[Len(summary)])
                    /\ ~Contains(summary, "NL")
                    /\ ~Contains(summary, "CRLF")

\* accepted after one retry: blanks trimmed, two internal newlines replaced
C14_Witness ==
    /\ llm = FixedLlm(1, Resp(<<"x", "NL", "B199", "NL", "x", "CRLF">>))
    /\ wikipedia_data.present
    /\ wikipedia_data.summary = <<"x", "ws", "B199", "ws", "x">>
    /\ scp_data.present

(* ------------------------------ rendering ----------------------------- *)
\* r is t with each token of `tokens` replaced by some text, the other
\* tokens of t kept in place
RECURSIVE OnlyAt(_, _, _)
OnlyAt(t, r, tokens) ==
    IF t = <<>> THEN r = <<>>
    ELSE IF Head(t) \notin tokens
    THEN r # <<>> /\ Head(r) = Head(t) /\ OnlyAt(Tail(t), Tail(r), tokens)
    ELSE \E k \in 0..Len(r) : OnlyAt(Tail(t), SubSeq(r, k + 1, Len(r)), tokens)

\* generate_readme returned the rendering of the template
Rendered == pc = "done" /\ ~output_readme

(* C15: Rendering leaves absent channels untouched.  With one channel      *)
(* absent and the other present, the rendered text differs from the        *)
(* template only where the present channel's placeholders were; every      *)
(* placeholder of the absent channel is still there, at the same place.    *)
C15_AbsentUntouched ==
    Rendered =>
        /\ (~scp_data.present /\ wikipedia_data.present) =>
               OnlyAt(template.text, result.text, WIKIPEDIA_PLACEHOLDERS)
        /\ (scp_data.present /\ ~wikipedia_data.present) =>
               OnlyAt(template.text, result.text, SCP_PLACEHOLDERS)

C15_Witness ==
    /\ Rendered
    /\ ~scp_data.present
    /\ wikipedia_data = WikipediaData(<<"w">>, <<"v">>, <<"z">>)
    /\ template.text = <<"{{SCP_TITLE}}", "{{WIKIPEDIA_TITLE}}", "{{SCP_SUMMARY}}">>
    /\ result.text = <<"{{SCP_TITLE}}", "w", "{{SCP_SUMMARY}}">>

\* the field a placeholder stands for; a token of an absent channel and
\* any other token stand for themselves
Field(token, scp, wiki) ==
    CASE token = "{{SCP_URL}}" /\ scp.present -> scp.url
      [] token = "{{SCP_TITLE}}" /\ scp.present -> scp.title
      [] token = "{{SCP_TITLE_ALT}}" /\ scp.present -> scp.title_alt
      [] token = "{{SCP_SUMMARY}}" /\ scp.present -> scp.summary
      [] token = "{{WIKIPEDIA_URL}}" /\ wiki.present -> wiki.url
      [] token = "{{WIKIPEDIA_TITLE}}" /\ wiki.present -> wiki.title
      [] token = "{{WIKIPEDIA_SUMMARY}}" /\ wiki.present -> wiki.summary
      [] OTHER -> <<token>>

\* every placeholder of the template replaced by its value, the values
\* themselves left as they are
RECURSIVE Expand(_, _, _)
Expand(t, scp, wiki) ==
    IF t = <<>> THEN <<>>
    ELSE Field(Head(t), scp, wiki) \o Expand(Tail(t), scp, wiki)

(* C16: Substitution is not re-entrant.  A field value that itself holds   *)
(* placeholder syntax appears verbatim in the rendered text; the token     *)
(* inside it is not expanded by a later substitution.                      *)
C16_NotReentrant ==
    Rendered => result.text = Expand(template.text, scp_data, wikipedia_data)

(* ------------------------- fetching the SCP page ---------------------- *)
\* the step that ends a call of get_random_scp
LeavesFetch == pc = "scp_fetch" /\ pc' # "scp_fetch"

(* C17: Source retry on bad status.  With an endpoint that always answers  *)
(* with a non-200 status and a budget N, get_random_scp makes exactly N+1  *)
(* requests before it gives up; the channel is then abandoned and the run  *)
(* goes on with the other channel.                                         *)
C17_RetryOnBadStatus ==
    [][ (scp_api.fixed /\ scp_api.answer.kind \in {"non200", "HTTPError"}
            /\ pc = "scp_fetch") =>
            /\ attempts <= max_retries
            /\ LeavesFetch =>
                   /\ attempts = max_retries
                   /\ pc' = "wikipedia_fetch"
                   /\ ~scp_data'.present ]_vars

(* C18: Transient transport failures are retried.  When the transport      *)
(* raises instead of returning a response, the fetch is retried up to the  *)
(* retry budget, and only then is the channel abandoned.                   *)
C18_TransportRetried ==
    [][ (scp_api.fixed /\ scp_api.answer.kind = "URLError" /\ LeavesFetch) =>
            /\ attempts = max_retries
            /\ pc' = "wikipedia_fetch" ]_vars

(* --------------------------- configuration ---------------------------- *)
\* no fetch, no generation call, no access to the target document so far
Untouched ==
    /\ cand = NoPage
    /\ attempts = 0
    /\ \A ch \in Channels : genTotal[ch] = 0 /\ lastResult[ch] = "none"
    /\ ~scp_data.present /\ ~wikipedia_data.present
    /\ readme = prior
    /\ result = NoResult

(* C19: Configuration errors stop the run before orchestration.  If the    *)
(* SCP prompt, the Wikipedia prompt or the API key is missing, the run     *)
(* ends with MissingEnvironmentVariableError before any fetch, any         *)
(* generation call and any read or write of the target document.           *)
C19_ConfigErrorsFirst ==
    config # Config(TRUE, TRUE, TRUE) =>
        /\ pc \in {"check_config", "raised"}
        /\ pc = "raised" =>
               uncaught = [exc |-> "MissingEnvironmentVariableError",
                           at |-> "config"]
        /\ Untouched

C19_Witness ==
    /\ config = Config(TRUE, TRUE, FALSE)
    /\ pc = "raised"
    /\ uncaught.exc = "MissingEnvironmentVariableError"

(* C20: A missing template is reported immediately.  If the template       *)
(* cannot be read, the run fails before any sourcing or generation call is *)
(* made and writes nothing to the target document.                         *)
C20_MissingTemplateFirst ==
    (~template.exists /\ config = Config(TRUE, TRUE, TRUE)) => Untouched

(* ------------------------------ records ------------------------------- *)
(* C21: DataRecord invariant.  A record exists for a channel only if the   *)
(* channel's last generation result was Accepted; its summary is longer    *)
(* than 200 characters and holds neither marker; no record is built from   *)
(* a rejected or failed generation.                                        *)
C21_RecordOnlyOnAccept ==
    /\ [](\A ch \in Channels :
            Data(ch).present =>
                /\ lastResult[ch] = "Accepted"
                /\ Data(ch).summary # <<>>
                /\ len(Data(ch).summary) > 200
                /\ ~Contains(Data(ch).summary, "INAPPROPRIATE")
                /\ ~Contains(Data(ch).summary, "ERROR"))
    /\ [][/\ scp_data' # scp_data =>
               (pc = "scp_summarize" /\ lastResult'["scp"] = "Accepted")
          /\ wikipedia_data' # wikipedia_data =>
               (pc = "wikipedia_summarize"
                    /\ lastResult'["wikipedia"] = "Accepted")]_vars

C21_Witness ==
    /\ pc = "generate_readme"
    /\ scp_data.present
    /\ wikipedia_data.present
    /\ scp_data.summary = <<"B200", "ws", "x">>

(* C22: A generated value that contains a line break is a structural       *)
(* mismatch.  If substituting a field makes the rendered text have more    *)
(* lines than the template, the patch fails with ValueError and writes no  *)
(* line of the target document.                                            *)
C22_LineBreakIsMismatch ==
    (Patching /\ Len(R) > Len(T)) =>
        (result.err = "ValueError" /\ readme = prior)

(* C23: Gate rule order.  An output holding both markers is rejected as    *)
(* policy, without a retry and without touching the budget; an output      *)
(* holding the error marker and not the policy marker is handled as an     *)
(* error whatever its length, never as too short.                          *)
C23_GateRuleOrder ==
    [][\A ch \in Channels :
          (llm.fixed /\ llm.errors = 0 /\ ~llm.then.none /\ pc = Gen(ch)) =>
              /\ Contains(llm.then.text, "INAPPROPRIATE") =>
                     /\ lastResult'[ch] = "RejectedPolicy"
                     /\ pc' = Src(ch)
                     /\ retries' = max_retries
                     /\ genTotal'[ch] = Bump(genTotal[ch])
              /\ (Contains(llm.then.text, "ERROR")
                      /\ ~Contains(llm.then.text, "INAPPROPRIATE")) =>
                     lastResult'[ch] =
                         IF retries > 0 THEN "Transient"
                         ELSE "RejectedMalformed"]_vars

\* an output of more than 200 characters with both markers was rejected as
\* policy on a run with a positive budget
C23_Witness ==
    /\ llm = FixedLlm(0, Resp(<<"B200", "ERROR", "INAPPROPRIATE">>))
    /\ max_retries = MaxRetries
    /\ lastResult["scp"] = "RejectedPolicy"
    /\ pc = "scp_fetch"
    /\ genTotal["scp"] = 1

(* C24: Generation retry keeps the candidate.  An output with the error    *)
(* marker, while budget remains, takes exactly one from the budget and     *)
(* calls generation again for the same candidate; no candidate is drawn    *)
(* between these attempts.                                                 *)
C24_RetryKeepsCandidate ==
    [][\A ch \in Channels :
          (pc = Gen(ch) /\ lastResult'[ch] = "Transient") =>
              /\ retries > 0
              /\ retries' = retries - 1
              /\ attempts' = attempts + 1
              /\ cand' = cand
              /\ pc' = Gen(ch)]_vars

C24_Witness ==
    /\ pc = "wikipedia_summarize"
    /\ max_retries = MaxRetries
    /\ retries = 0
    /\ attempts = MaxRetries
    /\ lastResult["wikipedia"] = "Transient"

(* C25: The same item is not retried after a content-quality rejection.    *)
(* If candidate x was rejected as policy-violating or too short, the next  *)
(* generation request of the channel is for a candidate other than x.      *)
C25_NewCandidateAfterReject ==
    [][\A ch \in Channels :
          (pc = Src(ch) /\ pc' = Gen(ch)
              /\ lastResult[ch] \in {"RejectedPolicy", "RejectedTooShort"})
          => cand'.url # cand.url]_vars

(* C26: Out-of-range target index raises.  If the index of any changed     *)
(* line of the rendered text lies outside the line range of the current    *)
(* document, the patch raises ValueError and returns no text.              *)
C26_OutOfRangeRaises ==
    (Patching /\ \E j \in PlusLines(T, R) : j > Len(D)) =>
        (result.err = "ValueError" /\ result.text = <<>>)

(* --------------------------- orchestration ---------------------------- *)
Phase(p) ==
    CASE p = "check_config" -> 0
      [] p \in {"scp_fetch", "scp_summarize"} -> 1
      [] p \in {"wikipedia_fetch", "wikipedia_summarize"} -> 2
      [] p = "generate_readme" -> 3
      [] OTHER -> 4

(* C27: Channels run strictly one after the other.  Every fetch and        *)
(* generation call of the SCP channel precedes the first call of the       *)
(* Wikipedia channel, the Wikipedia channel is started whether the SCP     *)
(* channel was accepted or abandoned, and render-and-patch happens only    *)
(* after both channels have ended.                                         *)
C27_ChannelsSequential ==
    /\ [](/\ Phase(pc) <= 1 =>
               (genTotal["wikipedia"] = 0 /\ lastResult["wikipedia"] = "none"
                    /\ ~wikipedia_data.present)
          /\ Phase(pc) <= 3 => (result = NoResult /\ readme = prior))
    /\ [][/\ Phase(pc') >= Phase(pc)
          /\ genTotal'["scp"] # genTotal["scp"] => Phase(pc) = 1
          /\ scp_data' # scp_data => Phase(pc) = 1
          /\ (Phase(pc) = 1 /\ Phase(pc') # 1) =>
                 \/ pc' = "wikipedia_fetch"
                 \/ pc' = "raised" /\ uncaught'.at = "scp"
          /\ (Phase(pc) = 2 /\ Phase(pc') # 2) =>
                 \/ pc' = "generate_readme"
                 \/ pc' = "raised" /\ uncaught'.at = "wikipedia"]_vars

\* the SCP channel was abandoned, the Wikipedia channel accepted, and the
\* document has been patched
C27_Witness ==
    /\ pc = "done"
    /\ lastResult["scp"] = "RejectedMalformed"
    /\ lastResult["wikipedia"] = "Accepted"
    /\ readme # prior

(* C28: The retry budget is per call.  Every fetch call and every          *)
(* generation call issued by _main starts with the full budget N, whatever *)
(* was consumed by earlier calls.                                          *)
C28_BudgetPerCall ==
    pc \in {"scp_fetch", "scp_summarize", "wikipedia_summarize"} =>
        retries + attempts = max_retries

\* a generation call starts with the full budget after the SCP channel has
\* used up its own
C28_Witness ==
    /\ pc = "wikipedia_summarize"
    /\ attempts = 0
    /\ retries = MaxRetries
    /\ seen["scp"] = "error"
    /\ genTotal["scp"] = MaxRetries + 1

(* C29: Line endings of untouched lines are preserved.  Each line of the   *)
(* current document that the patch does not overwrite is written back with *)
(* the line ending (LF, CR LF or none) it had before the call.             *)
LineEnd(line) ==
    IF line # <<>> /\ IsLineEnd(line[Len(line)]) THEN line[Len(line)]
    ELSE "none"

Overwritten == {Target(j) : j \in PlusLines(T, R)}

C29_LineEndingsKept ==
    Patched =>
        /\ Len(Out) = Len(DRaw)
        /\ \A i \in 1..Len(DRaw) :
               i \notin Overwritten => LineEnd(Out[i]) = LineEnd(DRaw[i])

(* C30: Alternate title is optional.  The record's alternate title is the  *)
(* first entry of the page's alternate-title list, or the empty string     *)
(* when the list is empty; the record is built all the same and the        *)
(* placeholder is replaced by the empty string.                            *)
C30_AlternateTitleOptional ==
    (scp_api.fixed /\ scp_data.present) =>
        LET page == scp_api.answer.page
        IN  /\ scp_data.title = page.title
            /\ scp_data.url = page.url
            /\ page.alternateTitles = <<>> => scp_data.title_alt = <<>>
            /\ page.alternateTitles # <<>> =>
                   scp_data.title_alt = Head(page.alternateTitles)
            /\ pc = "done" =>
                   Out[3] = <<"x">> \o scp_data.title_alt \o <<"x", "NL">>

\* a page without alternate titles: the record was built and the
\* placeholder has gone from the written document
C30_Witness ==
    /\ pc = "done"
    /\ scp_api = FixedApi([kind |-> "ok", page |-> Page(<<"u1">>, <<"t1">>, <<>>)])
    /\ scp_data.present
    /\ scp_data.title_alt = <<>>
    /\ Out[3] = <<"x", "x", "NL">>

(* C31: Line count is preserved by patching.  For every T, R, D for which  *)
(* the patch succeeds, the text it writes has exactly as many lines as the *)
(* document had.                                                           *)
C31_LineCountPreserved ==
    Patched => Len(Out) = Len(D)

(* C32: Patching is idempotent.  For every T, R, D for which the patch     *)
(* succeeds, patching its result again with the same T and R succeeds and  *)
(* returns and writes that same result.                                    *)
C32_Idempotent ==
    Patched =>
        \A g \in {generate_readme(scp_data, wikipedia_data, output_readme,
                                   template, readme)} :
            /\ g.err = "none"
            /\ g.file = readme
            /\ g.text = result.text

\* a retryable call of get_random_scp or summarize is running
InCall == pc \in {"scp_fetch", "scp_summarize", "wikipedia_summarize"}

(* C33: The retry budget bounds the attempts and never goes negative.  For *)
(* every integer budget N, negative ones included, a running call of       *)
(* get_random_scp or summarize has retried at most max(N, 0) times, and    *)
(* the budget that remains after a retry is at least 0.                    *)
C33_BudgetNeverNegative ==
    InCall =>
        /\ attempts <= (IF max_retries > 0 THEN max_retries ELSE 0)
        /\ attempts > 0 => retries >= 0

(* C34: An accepted summary is a single line for the patcher.  Every       *)
(* summary stored in a record holds no line boundary that str.splitlines   *)
(* recognises, so that substituting it into the template leaves the number *)
(* of lines of the rendering equal to that of the template.                *)
C34_SummaryIsOneLine ==
    /\ \A ch \in Channels :
           Data(ch).present => Len(splitlines(Data(ch).summary)) = 1
    /\ pc = "done" => Len(R) = Len(T)

(* C35: No placeholder introduced.  A successful patch writes no raw       *)
(* placeholder token of a channel without data into a document line that   *)
(* did not hold that token before.                                         *)
C35_NoPlaceholderIntroduced ==
    Patched =>
        \A i \in 1..Len(Out) :
            /\ ~scp_data.present =>
                   PlaceholdersIn(Out[i], SCP_PLACEHOLDERS) \subseteq
                       (IF i <= Len(D)
                        THEN PlaceholdersIn(D[i], SCP_PLACEHOLDERS) ELSE {})
            /\ ~wikipedia_data.present =>
                   PlaceholdersIn(Out[i], WIKIPEDIA_PLACEHOLDERS) \subseteq
                       (IF i <= Len(D)
                        THEN PlaceholdersIn(D[i], WIKIPEDIA_PLACEHOLDERS)
                        ELSE {})

(* C36: Fetch retries target the same endpoint.  For every endpoint the    *)
(* call of get_random_scp was given, each retry after a non-200 answer is  *)
(* sent to that endpoint.                                                  *)
C36_RetrySameEndpoint ==
    [][(pc = "scp_fetch" /\ pc' = "scp_fetch" /\ attempts' = attempts + 1)
           => endpoint' = endpoint]_vars

(* C37: A failed lookup writes nothing.  If the price lookup of any        *)
(* currency fails, README.md is not written in that run: it holds what it  *)
(* held when the run started, whatever was replaced in memory before.      *)
C37_FailedLookupWritesNothing ==
    cpt.lookup_failed => (cpt.pc = "failed" /\ cpt.file = cpt.start)

\* the second lookup failed after the first price had been replaced
C37_Witness ==
    /\ cpt.lookup_failed
    /\ cpt.pc = "failed"
    /\ cpt.i = 2
    /\ cpt.source # cpt.start
    /\ cpt.file = cpt.start

(* C38: Updating one currency changes only its cell.  A pass of the loop    *)
(* that replaces the price of a currency leaves every character of the     *)
(* text outside the content of that currency's cell as it was, for every   *)
(* old content of the cell, the empty one included.                        *)
C38_OnlyOwnCell ==
    [][(cpt.pc = "loop" /\ cpt'.pc = "loop" /\ cpt'.i = cpt.i + 1) =>
          \E match \in {search(cpt.source, cpt.CURRENCIES[cpt.i])} :
              /\ match.found
              /\ \E price \in Prices :
                     cpt'.source =
                         SubSeq(cpt.source, 1, match.from) \o price \o
                         SubSeq(cpt.source, match.to, Len(cpt.source))]_vars

====
